---- MODULE Spec2Model ----
(***************************************************************************)
(* ConnectX-Mobile chat screen: reconciliation of optimistic sends, HTTP   *)
(* confirmations, socket "new-message" deliveries, message reloads and     *)
(* unread counters.                                                        *)
(*                                                                         *)
(* Two copies of the screen exist in the repository:                       *)
(*   "screen"  src/src/screens/ChatScreen.tsx  (per-conversation unread    *)
(*             counters only, reset in the selectedChat effect)            *)
(*   "tabs"    src/unnamed/part_005            (adds totalUnreadCount, the *)
(*             delayed markAsRead reset and loadUnreadCounts)              *)
(* The message-list code of the two copies is identical; `build` selects   *)
(* which copy's unread code runs.                                          *)
(*                                                                         *)
(* Every handler runs to completion on the JS event loop, and the effects  *)
(* React runs after the resulting render are part of the same step.        *)
(***************************************************************************)
EXTENDS Integers, Sequences, FiniteSets, TLC

\* ---- bounds of the model ----
MaxMsgs == 1        \* messages (sent or received) in one run of Spec
MaxRequests == 1    \* loadMessages / loadUnreadCounts runs of one run followed to their end
MaxConnects == 1    \* connect() calls awaiting the stored token at one time
MaxInFlight == 2    \* HTTP requests of the API service awaiting their answer at one time
MaxMarkReads == 2   \* markMessageAsRead timers set for one message in one run
MaxSetups == 2      \* setupSocketListeners runs on one socket
\* the most messages the server can hold: one more in the runs of SpecWide
MaxStored == MaxMsgs + 1

\* ---- the world ----
Builds == {"screen", "tabs"}
Convs == {"c1", "c2"}
Me == "me"
Participant == [c1 |-> "u1", c2 |-> "u2"]
NoChat == "none"
Users == {Me} \cup {Participant[c] : c \in Convs}
NoContent == "undefined"
TextContent == "hi"
NullContent == "null"
\* content?: string of an IMAGE message as the server returns it: the key is
\* absent (undefined) or carries a value (null, a caption, a file name)
ImageContents == {NoContent, NullContent}
\* content of a TEXT message: the trimmed input, echoed by the server
TextContents == {TextContent}
\* what the TextInput can hold: nothing, blanks, a text, a text with blanks around it
BlankText == " "
PaddedText == " hi "
Drafts == {"", BlankText, TextContent, PaddedText}
\* String.prototype.trim on these texts
Trim(text) == IF text \in {"", BlankText} THEN "" ELSE TextContent
\* the texts of Alert.alert('Error', ...)
NoAlert == "none"
AlertConversations == "Failed to load conversations"
AlertMessages == "Failed to load messages"
AlertSend == "Failed to send message"
AlertImage == "Failed to send image"

VARIABLES
    build,                \* which copy of the screen is running
    conversations,        \* useState<Conversation[]>: ids of loaded conversations
    isLoading,            \* getConversations request still in flight
    selectedChat,         \* useState / selectedChatRef
    messages,             \* useState<Message[]>
    processedMessageIds,  \* useRef(new Set<string>())
    isSending,            \* useState(false)
    newMessage,           \* useState(''): the text in the TextInput
    pendingSend,          \* the send whose HTTP request is in flight
    tempSeq,              \* temp ids generated so far
    serverMsgs,           \* messages stored by the server, in creation order
    loads,                \* loadMessages requests in flight: <<conv, at>> -> count
    unreadCounts,         \* useState<Record<string, number>>
    totalUnreadCount,     \* useState(0), "tabs" only
    resetTimers,          \* conversations with a pending markAsRead timeout
    recounts,             \* loadUnreadCounts runs in flight: at -> count
    started,              \* requests followed so far: loadMessages, loadUnreadCounts
    socket,               \* SocketService: this.socket, its connected flag, the screen's listeners
    rooms,                \* conversation rooms the server holds this connection in
    wire,                 \* the latest emit the socket has put on the connection
    typingDebounce,       \* typingDebounceRef: the conversation of the pending typing-stop
    isTyping,             \* useState(false): the typing indicator
    typingTimeout,        \* typingTimeoutRef.current and the countdowns that are pending
    asyncStorage,         \* AsyncStorage: the items 'auth_token' and 'user'
    requests,             \* HTTP requests in flight: the client that sent them, their bearer
    isOnline,             \* participant.isOnline of each conversation
    lastMessage,          \* lastMessage / updatedAt of each conversation: the message they come from
    markRead,             \* per message: the 800 ms timers and markMessageAsRead requests pending
    reconnection,         \* socket.io's reconnection: attempts made since the drop, given up
    notification,         \* what the latest notification-settings call returned or threw
    viewport,             \* isNearBottom / isNearBottomRef and the scheduled performAutoScroll
    run,                  \* the run: its message and request budgets, what history it keeps
    history               \* history: deliveries, the last alert, the state before the last reload

vars == <<build, conversations, isLoading, selectedChat, messages,
          processedMessageIds, isSending, newMessage, pendingSend, tempSeq, serverMsgs,
          loads, unreadCounts, totalUnreadCount, resetTimers, recounts, started,
          socket, rooms, wire, typingDebounce, isTyping, typingTimeout,
          asyncStorage, requests, isOnline, lastMessage, markRead, reconnection,
          notification, viewport, run, history>>

\* the state of the chat screen and of the server's messages
chatVars == <<build, conversations, isLoading, selectedChat, messages,
              processedMessageIds, isSending, newMessage, pendingSend, tempSeq,
              serverMsgs, loads, unreadCounts, totalUnreadCount, resetTimers,
              recounts, started, run>>

\* the stored credential and the HTTP requests that carry it
apiVars == <<asyncStorage, requests>>

\* presence, summaries, read receipts, reconnection, settings and the viewport
viewVars == <<isOnline, lastMessage, markRead, reconnection, notification, viewport>>

\* the socket, the typing indicator and what they leave on the connection
serviceVars == <<socket, rooms, wire, typingDebounce, isTyping, typingTimeout>>

\* ---- identities ----
NoId == <<"none", 0>>
ServerId(n) == <<"m", n>>
TempId(n) == <<"temp", n>>
TempImgId(n) == <<"temp-img", n>>
\* id.startsWith('temp-'): true of 'temp-...' and of 'temp-img-...'
StartsWithTemp(id) == id[1] \in {"temp", "temp-img"}
\* id.startsWith('temp-img-')
StartsWithTempImg(id) == id[1] = "temp-img"

NoSend == [tempId |-> NoId, conversationId |-> NoChat, type |-> "NONE",
           content |-> NoContent, srv |-> 0]

Msg(id, c, sender, content, type) ==
    [id |-> id, conversationId |-> c, senderId |-> sender,
     receiverId |-> IF sender = Me THEN Participant[c] ELSE Me,
     content |-> content, type |-> type, isRead |-> FALSE]

Ids(ms) == {ms[i].id : i \in 1..Len(ms)}
RealIds(ms) == {id \in Ids(ms) : ~StartsWithTemp(id)}
Count(ms, id) == Cardinality({i \in 1..Len(ms) : ms[i].id = id})
Positions(ms, id) == {i \in 1..Len(ms) : ms[i].id = id}

\* ---- pure list functions ----
RECURSIVE DedupFrom(_, _)
DedupFrom(ms, seen) ==
    IF ms = <<>> THEN <<>>
    ELSE IF Head(ms).id \in seen THEN DedupFrom(Tail(ms), seen)
    ELSE <<Head(ms)>> \o DedupFrom(Tail(ms), seen \cup {Head(ms).id})

deduplicateMessages(ms) == DedupFrom(ms, {})

ReplaceById(ms, id, message) ==
    [i \in 1..Len(ms) |-> IF ms[i].id = id THEN message ELSE ms[i]]

\* deduped.find(m => m.id.startsWith('temp-') && m.senderId === message.senderId
\*                   && m.content === message.content)
TempMatches(ms, message) ==
    {i \in 1..Len(ms) : /\ StartsWithTemp(ms[i].id)
                        /\ ms[i].senderId = message.senderId
                        /\ ms[i].content = message.content}

FirstOf(S) == CHOOSE i \in S : \A j \in S : i <= j

\* the setMessages updater of the new-message handler
NewMessageUpdater(prev, message) ==
    LET deduped == deduplicateMessages(prev)
        temps == TempMatches(deduped, message)
    IN IF message.id \in Ids(deduped) THEN deduped
       ELSE IF temps # {} THEN ReplaceById(deduped, deduped[FirstOf(temps)].id, message)
       ELSE Append(deduped, message)

\* the setMessages updater of sendMessage after the HTTP response
SendMessageUpdater(prev, tempId, message) ==
    LET deduped == deduplicateMessages(prev)
        withoutTemp == SelectSeq(deduped, LAMBDA m : m.id # tempId)
    IN IF message.id \in Ids(withoutTemp) THEN withoutTemp
       ELSE Append(withoutTemp, message)

\* the setMessages updater of sendImageMessage after the HTTP response
SendImageUpdater(prev, tempId, message) == ReplaceById(prev, tempId, message)

\* a rollback that empties the list
SendMessageRollbackAll(prev) == <<>>
\* the setMessages updaters of the two catch blocks
SendMessageRollback(prev) == SelectSeq(prev, LAMBDA m : ~StartsWithTemp(m.id))
SendImageRollback(prev) == SelectSeq(prev, LAMBDA m : ~StartsWithTempImg(m.id))

\* useEffect([messages]): processedMessageIds.current = ids of messages without temp ids
RebuildProcessed(ms) == RealIds(ms)

\* ---- server side ----
\* what GET /conversations/:id/messages returns when the server holds its first n messages
ServerList(c, n) ==
    SelectSeq(SubSeq(serverMsgs, 1, n), LAMBDA m : m.conversationId = c)

\* the messages of c addressed to the user among the server's first n
ReceivedOnServer(c, n) ==
    Cardinality({i \in 1..n : /\ serverMsgs[i].conversationId = c
                              /\ serverMsgs[i].receiverId = Me})

Total(f) == LET RECURSIVE Sum(_)
                Sum(S) == IF S = {} THEN 0
                          ELSE LET k == CHOOSE k \in S : TRUE
                               IN f[k] + Sum(S \ {k})
            IN Sum(DOMAIN f)


\* ---- state after the first render and the mount effect ----
\* delivered: ids handed to the new-message handler so far;
\* sinceSelect: those handed to it for the active conversation since it became active;
\* alert: the text of the latest Alert.alert;
\* reload: the latest loadMessages call and the list and processed ids it found
NoReload == [conversationId |-> NoChat, at |-> 0, messages |-> <<>>, processed |-> {}]
\* overtaken: connect() calls that were awaiting when disconnect() was last called;
\* resumedOvertaken: the socket in place was created by such a call;
\* dropped: the connection has been lost and is not back yet;
\* rejoinDue: it came back while a conversation was active, and no
\* join-conversation for that conversation has been emitted since;
\* presenceRecounts: loadUnreadCounts runs in flight that a user-status-changed
\* event has started; loaded: the active conversation once its loadMessages has
\* resolved; orphaned: a socket that connect() replaced without closing it is
\* still open; typingFor: the conversation of the last user-typing event that
\* set the indicator and was neither stopped nor timed out; handlers: the
\* callbacks of the screen registered for each of its five events on this.socket
NoHistory == [delivered |-> {}, sinceSelect |-> {}, alert |-> NoAlert, reload |-> NoReload,
              overtaken |-> 0, resumedOvertaken |-> FALSE, dropped |-> FALSE,
              rejoinDue |-> FALSE, presenceRecounts |-> 0, loaded |-> NoChat,
              orphaned |-> FALSE, typingFor |-> NoChat, handlers |-> 0]
\* the kinds of history a run can keep
Deliveries == "deliveries"
Alerts == "alerts"
Reloads == "reloads"
Draft == "draft"
Wire == "wire"
Presence == "presence"
Summaries == "summaries"
MarkReads == "mark-reads"
Viewport == "viewport"
Switches == "switches"
Handles == "handles"
Typings == "typings"
Subscriptions == "subscriptions"
Recorded(kind) == kind \in run.recording
\* the text in the TextInput when the user taps Send: newMessage in the runs
\* that follow the draft; in the others the user has typed TextContent
Input == IF Recorded(Draft) THEN newMessage ELSE TextContent

\* open: this.socket is not null; connected: this.socket.connected;
\* listeners: the handlers of setupSocketListeners are attached to this.socket;
\* awaiting: connect() calls suspended at AsyncStorage.getItem('auth_token')
NoSocket == [open |-> FALSE, connected |-> FALSE, listeners |-> FALSE, awaiting |-> 0]
\* the socket of a session whose connect() has finished and is connected
LiveSocket == [open |-> TRUE, connected |-> TRUE, listeners |-> TRUE, awaiting |-> 0]

NoConv == "none"

\* ---- ConnectXAPI ----
NoToken == "null"
NoUser == "null"
Tokens == {"t1", "t2"}
\* after login / register: setItem('auth_token', token), setItem('user', ...)
Stored(token) == [auth_token |-> token, user |-> "user"]
\* after removeItem('auth_token'), removeItem('user')
Removed == [auth_token |-> NoToken, user |-> NoUser]
\* the answers of the server: success, authentication failure, another failure
Statuses == {200, 401, 500}
\* this.api carries the interceptors; the connectivity probe goes through the
\* global axios and the upload through a client made by axios.create
Clients == {"api", "axios", "uploadClient"}
Request(client, bearer) == [client |-> client, bearer |-> bearer]
NoEmission == <<"none", NoConv>>
\* ref: typingTimeoutRef.current (0: null); pending: timers set and neither
\* fired nor cleared
NoTimeout == [ref |-> 0, pending |-> {}]

\* scheduled: timers set for the message so far; timers: those still to fire;
\* requests: markMessageAsRead requests awaiting their answer
NoMarkRead == [scheduled |-> 0, timers |-> 0, requests |-> 0]
\* SOCKET_CONFIG.reconnectionAttempts
ReconnectionAttempts == 5
NoReconnection == [attempts |-> 0, failed |-> FALSE]
\* call: the method called last; outcome: pending, returned or thrown;
\* status: the status of the answer (0: no answer); value: what was returned
NoCall == [call |-> "none", status |-> 0, outcome |-> "none", value |-> "none"]

\* isNearBottom: the state and its ref; isLoadingMessages: the spinner replaces
\* the list; position: where the list is scrolled to; pending: a timeout of
\* performAutoScroll is pending; advance: the last handler that changed the
\* list called or scheduled performAutoScroll
NoScroll == [isNearBottom |-> TRUE, isLoadingMessages |-> FALSE, position |-> "newest",
             pending |-> FALSE, advance |-> FALSE]

InitCommon ==
    /\ build \in Builds
    /\ conversations = {}
    /\ isLoading = TRUE
    /\ selectedChat = NoChat
    /\ messages = <<>>
    /\ processedMessageIds = {}
    /\ isSending = FALSE
    /\ newMessage = ""
    /\ pendingSend = NoSend
    /\ tempSeq = 0
    /\ serverMsgs = <<>>
    /\ loads = [k \in Convs \X (0..MaxStored) |-> 0]
    /\ unreadCounts = [c \in Convs |-> 0]
    /\ totalUnreadCount = 0
    /\ resetTimers = {}
    /\ recounts = [n \in 0..MaxStored |-> 0]
    /\ started = [loads |-> 0, recounts |-> 0]
    /\ rooms = {}
    /\ wire = NoEmission
    /\ typingDebounce = NoConv
    /\ isTyping = FALSE
    /\ typingTimeout = NoTimeout
    /\ asyncStorage = Stored("t1")
    /\ requests = {}
    /\ isOnline = [c \in Convs |-> FALSE]
    /\ lastMessage = [c \in Convs |-> NoId]
    /\ markRead = [n \in 1..MaxStored |-> NoMarkRead]
    /\ reconnection = NoReconnection
    /\ notification = NoCall
    /\ viewport = NoScroll
    /\ history = NoHistory

\* runs with at most MaxMsgs messages
Init == InitCommon /\ socket = LiveSocket /\ run = [msgLimit |-> MaxMsgs, reqLimit |-> MaxRequests, recording |-> {}]

\* runs with one more message
InitWide == InitCommon /\ socket = LiveSocket /\ run = [msgLimit |-> MaxStored, reqLimit |-> MaxRequests, recording |-> {}]

\* runs with at most MaxMsgs messages that keep the delivery history
InitRecorded ==
    InitCommon /\ socket = LiveSocket
               /\ run = [msgLimit |-> MaxMsgs, reqLimit |-> MaxRequests,
                         recording |-> {Deliveries, Alerts, Reloads}]

\* handlers that would read the current `conversations`
HandlerConversationsLive == conversations
\* `conversations` as the socket handlers see it.  setupSocketListeners runs
\* once, in the mount effect, so its closures keep the first render's
\* `conversations`, the initial useState value [].
HandlerConversations == {}

\* useEffect([conversations, user?.id]) of "tabs": every setConversations call
\* (updaters return a fresh array) starts loadUnreadCounts, which returns at
\* once when the list is empty.  The first run.reqLimit requests of a run
\* (loadMessages and loadUnreadCounts together) are followed to their end;
\* the others stay in flight.
RequestFollowed == started.loads + started.recounts < run.reqLimit

RecountFollowed(convs) == build = "tabs" /\ convs # {} /\ RequestFollowed

RecountStarted(convs) ==
    IF RecountFollowed(convs)
    THEN [recounts EXCEPT ![Len(serverMsgs)] = @ + 1]
    ELSE recounts

\* the requests followed after a step that issues loadMessages (load) and
\* sets `conversations` to convs (recount)
StartedAfter(load, recount, convs) ==
    [loads |-> IF load /\ RequestFollowed
               THEN started.loads + 1 ELSE started.loads,
     recounts |-> IF recount /\ RecountFollowed(convs)
                  THEN started.recounts + 1 ELSE started.recounts]

\* ---- SocketService ----
Emission(event, c) == <<event, c>>

\* an emit that does not look at the connection
EmitAlways(event, c) == Emission(event, c)
\* if (this.socket?.connected) this.socket.emit(event, ...)
Emit(event, c) ==
    IF socket.open /\ socket.connected THEN Emission(event, c) ELSE wire

\* the wire after emitting, kept in the runs that record it
Wired(w) == IF Recorded(Wire) THEN w ELSE wire

\* joinConversation(c) as it reaches the server's rooms
Joined(c) == IF socket.open /\ socket.connected THEN rooms \cup {c} ELSE rooms
\* a cleanup whose leave does not reach the server
LeftNever(c) == rooms
\* leaveConversation(c) as it reaches the server's rooms
Left(c) == IF socket.open /\ socket.connected THEN rooms \ {c} ELSE rooms

\* connect() up to its await: returns at once when already connected
Connect ==
    /\ ~(socket.open /\ socket.connected)
    /\ socket.awaiting < MaxConnects
    /\ socket' = [socket EXCEPT !.awaiting = @ + 1]
    /\ UNCHANGED <<rooms, wire, typingDebounce, isTyping, typingTimeout, history>>
    /\ UNCHANGED viewVars
    /\ UNCHANGED chatVars
    /\ UNCHANGED apiVars

\* connect() after its await: this.socket = io(...), a new socket that has yet
\* to connect and carries none of the screen's listeners
ConnectResume ==
    /\ socket.awaiting > 0
    /\ socket' = [open |-> TRUE, connected |-> FALSE, listeners |-> FALSE,
                  awaiting |-> socket.awaiting - 1]
    /\ rooms' = {}
    /\ history' =
          LET resumed == IF Recorded(Wire)
                         THEN [history EXCEPT !.overtaken = IF @ > 0 THEN @ - 1 ELSE 0,
                                              !.resumedOvertaken = history.overtaken > 0,
                                              !.dropped = FALSE, !.rejoinDue = FALSE]
                         ELSE history
          IN IF Recorded(Handles)
             THEN [resumed EXCEPT !.orphaned = @ \/ socket.open, !.handlers = 0]
             ELSE [resumed EXCEPT !.handlers = 0]
    /\ UNCHANGED <<wire, typingDebounce, isTyping, typingTimeout>>
    /\ reconnection' = NoReconnection
    /\ UNCHANGED <<isOnline, lastMessage, markRead, notification, viewport>>
    /\ UNCHANGED chatVars
    /\ UNCHANGED apiVars

\* the socket's 'connect' event: first connection or automatic reconnection;
\* the server starts the connection with no rooms
SocketConnects ==
    /\ socket.open /\ ~socket.connected
    /\ ~reconnection.failed
    /\ socket' = [socket EXCEPT !.connected = TRUE]
    /\ rooms' = {}
    /\ history' = IF Recorded(Wire)
                  THEN [history EXCEPT !.rejoinDue = history.dropped /\ selectedChat # NoChat,
                                       !.dropped = FALSE]
                  ELSE history
    /\ UNCHANGED <<wire, typingDebounce, isTyping, typingTimeout>>
    /\ reconnection' = NoReconnection
    /\ UNCHANGED <<isOnline, lastMessage, markRead, notification, viewport>>
    /\ UNCHANGED chatVars
    /\ UNCHANGED apiVars

\* a manager that goes on trying
GivesUpNever(attempts) == FALSE
\* reconnectionAttempts: the manager stops after that many failed attempts
GivesUp(attempts) == attempts >= ReconnectionAttempts

\* a connection attempt of socket.io fails ('connect_error' / 'reconnect_error'):
\* the manager schedules the next one or, the attempts exhausted, emits
\* 'reconnect_failed' and stops
ReconnectFails ==
    /\ socket.open /\ ~socket.connected
    /\ ~reconnection.failed
    /\ reconnection' =
          LET attempts == IF reconnection.attempts < ReconnectionAttempts
                          THEN reconnection.attempts + 1 ELSE reconnection.attempts
          IN [attempts |-> attempts, failed |-> GivesUp(attempts)]
    /\ UNCHANGED <<isOnline, lastMessage, markRead, notification, viewport>>
    /\ UNCHANGED <<history>>
    /\ UNCHANGED serviceVars
    /\ UNCHANGED chatVars
    /\ UNCHANGED apiVars

\* the socket's 'disconnect' event: the transport is lost, the server drops
\* the connection's rooms, socket.io will try to reconnect
SocketDrops ==
    /\ socket.open /\ socket.connected
    /\ socket' = [socket EXCEPT !.connected = FALSE]
    /\ rooms' = {}
    /\ history' = IF Recorded(Wire)
                  THEN [history EXCEPT !.dropped = TRUE, !.rejoinDue = FALSE]
                  ELSE history
    /\ UNCHANGED <<wire, typingDebounce, isTyping, typingTimeout>>
    /\ reconnection' = NoReconnection
    /\ UNCHANGED <<isOnline, lastMessage, markRead, notification, viewport>>
    /\ UNCHANGED chatVars
    /\ UNCHANGED apiVars

\* disconnect(): if (this.socket) { this.socket.disconnect(); this.socket = null }
Disconnect ==
    /\ socket' = [socket EXCEPT !.open = FALSE, !.connected = FALSE, !.listeners = FALSE]
    /\ rooms' = {}
    /\ history' = IF Recorded(Wire)
                  THEN [history EXCEPT !.overtaken = socket.awaiting,
                                       !.resumedOvertaken = FALSE,
                                       !.dropped = FALSE, !.rejoinDue = FALSE,
                                       !.handlers = 0]
                  ELSE [history EXCEPT !.handlers = 0]
    /\ UNCHANGED <<wire, typingDebounce, isTyping, typingTimeout>>
    /\ reconnection' = NoReconnection
    /\ UNCHANGED <<isOnline, lastMessage, markRead, notification, viewport>>
    /\ UNCHANGED chatVars
    /\ UNCHANGED apiVars

\* ---- the listeners of the screen ----
\* the callback argument of socketService.off(event): none is passed
NoCallback == "undefined"
\* this.socket.off(event, callback): the service always passes two arguments,
\* so the emitter removes the listener that equals callback; none equals undefined
SocketOff(registered, callback) ==
    IF callback = NoCallback THEN registered
    ELSE IF registered > 0 THEN registered - 1 ELSE 0
\* this.socket.on(event, callback)
SocketOn(registered) == registered + 1

\* setupSocketListeners(): off and then on for each of the five events, on the
\* socket the service holds (without a socket both do nothing)
SetupSocketListeners ==
    /\ Recorded(Subscriptions)
    /\ socket.open
    /\ history.handlers < MaxSetups
    /\ history' = [history EXCEPT !.handlers = SocketOn(SocketOff(@, NoCallback))]
    /\ socket' = [socket EXCEPT !.listeners = TRUE]
    /\ UNCHANGED <<rooms, wire, typingDebounce, isTyping, typingTimeout>>
    /\ UNCHANGED viewVars
    /\ UNCHANGED chatVars
    /\ UNCHANGED apiVars

\* ---- the typing indicator ----
\* a handler that accepts the typing signals of every conversation
TypingIsFromAnyChat(userId, conversationId) == userId # Me
\* conversationId === selectedChatRef.current && userId !== user?.id
TypingIsForActive(userId, conversationId) ==
    conversationId = selectedChat /\ userId # Me

\* a handler that leaves the previous countdown running
ClearTimeoutSkipped(timeout) == timeout.pending
\* typingTimeoutRef.current && clearTimeout(typingTimeoutRef.current)
ClearTimeout(timeout) == timeout.pending \ {timeout.ref}

\* the id setTimeout returns: one that no pending timer has
SetTimeout(pending) ==
    CHOOSE id \in 1..(Cardinality(pending) + 1) :
        /\ id \notin pending
        /\ \A other \in 1..(Cardinality(pending) + 1) : other \notin pending => id <= other

\* socketService.on('user-typing', ...): an event the server sends over the
\* connected socket to the attached handler
UserTyping(userId, conversationId) ==
    /\ socket.open /\ socket.connected /\ socket.listeners
    /\ IF TypingIsForActive(userId, conversationId)
       THEN /\ isTyping' = TRUE
            /\ LET cleared == ClearTimeout(typingTimeout)
                   id == SetTimeout(cleared)
               IN typingTimeout' = [ref |-> id, pending |-> cleared \cup {id}]
            /\ history' = IF Recorded(Typings)
                          THEN [history EXCEPT !.typingFor = conversationId]
                          ELSE history
       ELSE UNCHANGED <<isTyping, typingTimeout, history>>
    /\ UNCHANGED <<socket, rooms, wire, typingDebounce>>
    /\ UNCHANGED viewVars
    /\ UNCHANGED chatVars
    /\ UNCHANGED apiVars

\* socketService.on('user-stopped-typing', ...)
UserStoppedTyping(userId, conversationId) ==
    /\ socket.open /\ socket.connected /\ socket.listeners
    /\ IF TypingIsForActive(userId, conversationId)
       THEN /\ isTyping' = FALSE
            /\ history' = [history EXCEPT !.typingFor = NoChat]
       ELSE UNCHANGED <<isTyping, history>>
    /\ UNCHANGED <<socket, rooms, wire, typingDebounce, typingTimeout>>
    /\ UNCHANGED viewVars
    /\ UNCHANGED chatVars
    /\ UNCHANGED apiVars

\* the setTimeout callback armed by the user-typing handler, 2500 ms later
TypingTimeoutFires(id) ==
    /\ id \in typingTimeout.pending
    /\ typingTimeout' = [typingTimeout EXCEPT !.pending = @ \ {id}]
    /\ isTyping' = FALSE
    /\ history' = [history EXCEPT !.typingFor = NoChat]
    /\ UNCHANGED <<socket, rooms, wire, typingDebounce>>
    /\ UNCHANGED viewVars
    /\ UNCHANGED chatVars
    /\ UNCHANGED apiVars

\* the setTimeout callback armed by onChangeText, 1000 ms later:
\* socketService.sendTyping(selectedConv.id, false)
TypingDebounceFires ==
    /\ typingDebounce # NoConv
    /\ typingDebounce' = NoConv
    /\ wire' = Wired(Emit("typing-stop", typingDebounce))
    /\ UNCHANGED <<socket, rooms, isTyping, typingTimeout, history>>
    /\ UNCHANGED viewVars
    /\ UNCHANGED chatVars
    /\ UNCHANGED apiVars

\* ---- ConnectXAPI: requests and their answers ----
\* setupInterceptors registers on this.api only
Intercepted(client) == client = "api"

\* the response interceptor's error branch: a 401 removes both items
AfterAnswer(client, status) ==
    IF Intercepted(client) /\ status = 401 THEN Removed ELSE asyncStorage

\* a method of the service sends a request through this.api; the request
\* interceptor adds the bearer when a token is stored
ApiRequest ==
    /\ Cardinality(requests) < MaxInFlight
    /\ requests' = requests \cup {Request("api", asyncStorage.auth_token)}
    /\ UNCHANGED <<asyncStorage, history>>
    /\ UNCHANGED viewVars
    /\ UNCHANGED chatVars
    /\ UNCHANGED serviceVars

\* sendImageMessage: the connectivity probe, axios.get with the stored token
ImageProbeRequest ==
    /\ Cardinality(requests) < MaxInFlight
    /\ requests' = requests \cup {Request("axios", asyncStorage.auth_token)}
    /\ UNCHANGED <<asyncStorage, history>>
    /\ UNCHANGED viewVars
    /\ UNCHANGED chatVars
    /\ UNCHANGED serviceVars

\* the answer to a request of this.api
ApiAnswer(request, status) ==
    /\ request \in requests
    /\ request.client = "api"
    /\ requests' = requests \ {request}
    /\ asyncStorage' = AfterAnswer(request.client, status)
    /\ UNCHANGED history
    /\ UNCHANGED viewVars
    /\ UNCHANGED chatVars
    /\ UNCHANGED serviceVars

\* the answer to the probe: on success the token is read again and, when
\* there is one, the upload is sent; otherwise sendImageMessage throws
ImageProbeAnswer(request, status) ==
    /\ request \in requests
    /\ request.client = "axios"
    /\ requests' = IF status = 200 /\ asyncStorage.auth_token # NoToken
                   THEN (requests \ {request})
                           \cup {Request("uploadClient", asyncStorage.auth_token)}
                   ELSE requests \ {request}
    /\ asyncStorage' = AfterAnswer(request.client, status)
    /\ UNCHANGED history
    /\ UNCHANGED viewVars
    /\ UNCHANGED chatVars
    /\ UNCHANGED serviceVars

\* the answer to the upload: the message is returned or the error rethrown
ImageUploadAnswer(request, status) ==
    /\ request \in requests
    /\ request.client = "uploadClient"
    /\ requests' = requests \ {request}
    /\ asyncStorage' = AfterAnswer(request.client, status)
    /\ UNCHANGED history
    /\ UNCHANGED viewVars
    /\ UNCHANGED chatVars
    /\ UNCHANGED serviceVars

\* login() / register() after a successful answer: the items are stored
Login(token) ==
    /\ asyncStorage.auth_token = NoToken
    /\ asyncStorage' = Stored(token)
    /\ UNCHANGED <<requests, history>>
    /\ UNCHANGED viewVars
    /\ UNCHANGED chatVars
    /\ UNCHANGED serviceVars

\* logout(): the items are removed
Logout ==
    /\ asyncStorage.auth_token # NoToken
    /\ asyncStorage' = Removed
    /\ UNCHANGED <<requests, history>>
    /\ UNCHANGED viewVars
    /\ UNCHANGED chatVars
    /\ UNCHANGED serviceVars

\* ---- ConnectXAPI: notification settings ----
\* the four flags of the settings, all true
Defaults == [pushEnabled |-> TRUE, messageNotifications |-> TRUE,
             emailNotifications |-> TRUE, soundEnabled |-> TRUE]
\* settings a server that implements the endpoint can hold
StoredSettings == {Defaults, [Defaults EXCEPT !.pushEnabled = FALSE]}
\* { success: true }
Success == [success |-> TRUE]
\* the answers to the two calls: none (a network error), success, failures
SettingsStatuses == {0, 200, 401, 404, 405, 500}
\* response.data of a successful answer
SettingsData(call) == IF call = "get" THEN StoredSettings ELSE {Success}

\* a catch block without the fallback
UnsupportedNone == {}
\* error.response?.status === 404 || error.response?.status === 405
Unsupported == {404, 405}

\* what the call returns or throws when the request is answered
SettingsOutcome(call, status, data) ==
    IF status = 200
    THEN [call |-> call, status |-> status, outcome |-> "returned", value |-> data]
    ELSE IF status \in Unsupported
    THEN [call |-> call, status |-> status, outcome |-> "returned",
          value |-> IF call = "get" THEN Defaults ELSE Success]
    ELSE [call |-> call, status |-> status, outcome |-> "thrown", value |-> "none"]

\* getNotificationSettings() / updateNotificationSettings(settings) up to the await
NotificationSettingsRequest(call) ==
    /\ notification.outcome # "pending"
    /\ notification' = [call |-> call, status |-> 0, outcome |-> "pending", value |-> "none"]
    /\ UNCHANGED <<isOnline, lastMessage, markRead, reconnection, viewport>>
    /\ UNCHANGED serviceVars
    /\ UNCHANGED apiVars
    /\ UNCHANGED history
    /\ UNCHANGED chatVars

\* the request is answered, through the interceptors of this.api
NotificationSettingsAnswer(status, data) ==
    /\ notification.outcome = "pending"
    /\ data \in SettingsData(notification.call)
    /\ notification' = SettingsOutcome(notification.call, status, data)
    /\ asyncStorage' = AfterAnswer("api", status)
    /\ UNCHANGED <<isOnline, lastMessage, markRead, reconnection, viewport>>
    /\ UNCHANGED serviceVars
    /\ UNCHANGED <<requests, history>>
    /\ UNCHANGED chatVars

\* Alert.alert('Error', text)
Alerted(text) == IF Recorded(Alerts) THEN [history EXCEPT !.alert = text] ELSE history

\* ---- conversation list ----
\* the last message of conversation c among the server's first n (NoId: none)
LastOnServer(c, n) ==
    LET S == {i \in 1..n : serverMsgs[i].conversationId = c}
    IN IF S = {} THEN NoId ELSE serverMsgs[CHOOSE i \in S : \A j \in S : j <= i].id

\* lastMessage of the conversations as GET /conversations returns them when
\* the server holds its first n messages
ServerSummaries(n) == [c \in Convs |-> LastOnServer(c, n)]

\* a test that takes the message for every conversation
IsForEveryConv(message, c) == TRUE
\* (message.senderId === user?.id && message.receiverId === conv.participant.id) ||
\* (message.receiverId === user?.id && message.senderId === conv.participant.id)
IsForThisConv(message, c) ==
    \/ message.senderId = Me /\ message.receiverId = Participant[c]
    \/ message.receiverId = Me /\ message.senderId = Participant[c]

\* a conversation as the list holds it: its id and the id of its participant
Conversation(c) == [id |-> c, participant |-> Participant[c]]
ConversationOf(prev) == {Conversation(c) : c \in prev}

\* a map callback that returns a conversation for the matching ones only
MapMatching(prev, matching) ==
    {[id |-> conv.id, participant |-> conv.participant] :
        conv \in {x \in ConversationOf(prev) : x.id \in matching}}
\* prev.map(conv => matches ? {...conv, changed fields} : conv): the spread
\* keeps id and participant.id, the other conversations are returned as they are
MapConversations(prev, matching) ==
    {[id |-> conv.id, participant |-> conv.participant] :
        conv \in {x \in ConversationOf(prev) : x.id \in matching}}
    \cup {x \in ConversationOf(prev) : x.id \notin matching}

\* the conversations a message is for
ForMessage(message) == {c \in Convs : IsForThisConv(message, c)}
\* the conversations of a participant
OfParticipant(userId) == {c \in Convs : Participant[c] = userId}

\* setConversations(prev => prev.map(conv => isForThisConv ? {...conv, lastMessage, updatedAt} : conv))
updateConversationLocally(message) ==
    IF Recorded(Summaries)
    THEN [c \in Convs |->
            IF c \in conversations /\ IsForThisConv(message, c)
            THEN message.id ELSE lastMessage[c]]
    ELSE lastMessage

LoadConversationsResolve ==
    /\ isLoading
    /\ isLoading' = FALSE
    /\ conversations' = Convs
    /\ recounts' = RecountStarted(Convs)
    /\ started' = StartedAfter(FALSE, TRUE, Convs)
    /\ isOnline' \in (IF Recorded(Presence) THEN [Convs -> BOOLEAN] ELSE {isOnline})
    /\ lastMessage' \in {IF Recorded(Summaries) THEN ServerSummaries(n) ELSE lastMessage :
                           n \in 0..Len(serverMsgs)}
    /\ UNCHANGED <<markRead, reconnection, notification, viewport>>
    /\ UNCHANGED serviceVars
    /\ UNCHANGED <<build, asyncStorage, requests, newMessage, selectedChat, messages, processedMessageIds, isSending,
                   pendingSend, tempSeq, serverMsgs, loads, unreadCounts,
                   totalUnreadCount, resetTimers, history, run>>

LoadConversationsFail ==
    /\ isLoading
    /\ isLoading' = FALSE
    /\ history' = Alerted(AlertConversations)
    /\ UNCHANGED serviceVars
    /\ UNCHANGED viewVars
    /\ UNCHANGED <<build, asyncStorage, requests, newMessage, conversations, selectedChat, messages, processedMessageIds,
                   isSending, pendingSend, tempSeq, serverMsgs, loads, unreadCounts,
                   totalUnreadCount, resetTimers, recounts, started, run>>

\* ---- the viewport of the message list ----
\* the FlatList is rendered: a chat is selected and its messages are not loading
Mounted == selectedChat # NoChat /\ ~viewport.isLoadingMessages

\* useEffect([messages.length, isNearBottom]): the timeouts it sets after a render
SmartAutoScroll(lengthBefore, lengthAfter, nearBefore, nearAfter) ==
    IF /\ lengthBefore # lengthAfter \/ nearBefore # nearAfter
       /\ lengthAfter > 0
       /\ nearAfter
    THEN 1 ELSE 0

\* a handler that scrolls for every message
AutoScrollAlways(message) == TRUE
\* isNearBottomRef.current || message.senderId === currentUserId
AutoScrollDue(message) == viewport.isNearBottom \/ message.senderId = Me

\* the viewport after a handler that leaves the list as msgs, sets isNearBottom
\* to near and isLoadingMessages to loading, sets `timeouts` timeouts of
\* performAutoScroll and calls it at once when `called`; a list that is
\* rendered again starts at its newest message
Viewed(msgs, near, loading, timeouts, called) ==
    IF Recorded(Viewport)
    THEN LET scheduled == timeouts + SmartAutoScroll(Len(messages), Len(msgs),
                                                     viewport.isNearBottom, near)
         IN [isNearBottom |-> near,
             isLoadingMessages |-> loading,
             position |-> IF viewport.isLoadingMessages /\ ~loading
                          THEN "newest" ELSE viewport.position,
             pending |-> viewport.pending \/ scheduled > 0,
             advance |-> called \/ scheduled > 0]
    ELSE viewport

\* handleScroll: the user has scrolled the list to the other position
HandleScroll(isAtBottom) ==
    /\ Recorded(Viewport)
    /\ Mounted
    /\ isAtBottom # (viewport.position = "newest")
    /\ viewport' = [Viewed(messages, isAtBottom, viewport.isLoadingMessages, 0, FALSE)
                      EXCEPT !.position = IF isAtBottom THEN "newest" ELSE "away",
                             !.advance = viewport.advance]
    /\ UNCHANGED <<isOnline, lastMessage, markRead, reconnection, notification>>
    /\ UNCHANGED serviceVars
    /\ UNCHANGED apiVars
    /\ UNCHANGED history
    /\ UNCHANGED chatVars

\* the pending timeouts of performAutoScroll fire: without a list they return;
\* a list that is scrolled away moves to offset 0 and reports the scroll to
\* handleScroll, and the effect of isNearBottom sets one more timeout
AutoScrollFires ==
    /\ viewport.pending
    /\ viewport' =
          IF Mounted /\ viewport.position = "away"
          THEN [Viewed(messages, TRUE, viewport.isLoadingMessages, 0, FALSE)
                  EXCEPT !.position = "newest",
                         !.pending = SmartAutoScroll(Len(messages), Len(messages),
                                                     viewport.isNearBottom, TRUE) > 0,
                         !.advance = viewport.advance]
          ELSE [viewport EXCEPT !.pending = FALSE]
    /\ UNCHANGED <<isOnline, lastMessage, markRead, reconnection, notification>>
    /\ UNCHANGED serviceVars
    /\ UNCHANGED apiVars
    /\ UNCHANGED history
    /\ UNCHANGED chatVars

\* ---- switching the active conversation ----
\* onPress of a conversation row (the list is rendered only while no chat is
\* selected) and the useEffect([selectedChat]) that follows
SelectChat(c) ==
    /\ selectedChat = NoChat
    /\ c \in conversations
    /\ selectedChat' = c
    /\ processedMessageIds' = {}
    /\ loads' = IF RequestFollowed
                THEN [loads EXCEPT ![<<c, Len(serverMsgs)>>] = @ + 1]
                ELSE loads
    /\ started' = StartedAfter(TRUE, FALSE, conversations)
    /\ IF build = "screen"
       THEN /\ unreadCounts' = [unreadCounts EXCEPT ![c] = 0]
            /\ UNCHANGED resetTimers
       ELSE /\ resetTimers' = resetTimers \cup {c}
            /\ UNCHANGED unreadCounts
    /\ history' = [history EXCEPT
          !.sinceSelect = IF Recorded(Deliveries) THEN {} ELSE @,
          !.reload = IF Recorded(Reloads)
                     THEN [conversationId |-> c, at |-> Len(serverMsgs),
                           messages |-> messages, processed |-> processedMessageIds]
                     ELSE @,
          !.rejoinDue = IF socket.open /\ socket.connected THEN FALSE ELSE @,
          !.loaded = NoChat]
    /\ rooms' = Joined(c)
    /\ wire' = Wired(Emit("join-conversation", c))
    /\ viewport' = [Viewed(messages, viewport.isNearBottom, RequestFollowed, 0, FALSE)
                      EXCEPT !.advance = viewport.advance]
    /\ UNCHANGED <<socket, typingDebounce, isTyping, typingTimeout>>
    /\ UNCHANGED <<isOnline, lastMessage, markRead, reconnection, notification>>
    /\ UNCHANGED <<build, asyncStorage, requests, newMessage, conversations, isLoading, messages, isSending, pendingSend,
                   tempSeq, serverMsgs, totalUnreadCount, recounts, run>>

\* the Back button: setSelectedChat(null)
Back ==
    /\ selectedChat # NoChat
    /\ selectedChat' = NoChat
    /\ history' = [history EXCEPT
          !.sinceSelect = IF Recorded(Deliveries) THEN {} ELSE @,
          !.rejoinDue = FALSE,
          !.loaded = NoChat]
    /\ rooms' = Left(selectedChat)
    /\ wire' = Wired(Emit("leave-conversation", selectedChat))
    /\ UNCHANGED <<socket, typingDebounce, isTyping, typingTimeout>>
    /\ UNCHANGED viewVars
    /\ UNCHANGED <<build, asyncStorage, requests, newMessage, conversations, isLoading, messages, processedMessageIds,
                   isSending, pendingSend, tempSeq, serverMsgs, loads, unreadCounts,
                   totalUnreadCount, resetTimers, recounts, started, run>>

\* a reset that forgets the total
ResetTotalKeeps(prevTotal, currentUnread) == prevTotal
\* Math.max(0, prevTotal - currentUnread)
ResetTotal(prevTotal, currentUnread) ==
    IF prevTotal - currentUnread > 0 THEN prevTotal - currentUnread ELSE 0

\* a timeout callback that resets nothing
MarkAsReadTimerSkipsReset(c) ==
    /\ c \in resetTimers
    /\ resetTimers' = resetTimers \ {c}
    /\ UNCHANGED serviceVars
    /\ UNCHANGED viewVars
    /\ UNCHANGED <<build, asyncStorage, requests, newMessage, conversations, isLoading, selectedChat, messages,
                   processedMessageIds, isSending, pendingSend, tempSeq, serverMsgs,
                   loads, unreadCounts, totalUnreadCount, recounts, started, history, run>>
\* the setTimeout callback of markAsRead ("tabs")
MarkAsReadTimer(c) ==
    /\ c \in resetTimers
    /\ resetTimers' = resetTimers \ {c}
    /\ LET currentUnread == unreadCounts[c]
       IN IF currentUnread > 0
          THEN /\ unreadCounts' = [unreadCounts EXCEPT ![c] = 0]
               /\ totalUnreadCount' = ResetTotal(totalUnreadCount, currentUnread)
          ELSE UNCHANGED <<unreadCounts, totalUnreadCount>>
    /\ UNCHANGED serviceVars
    /\ UNCHANGED viewVars
    /\ UNCHANGED <<build, asyncStorage, requests, newMessage, conversations, isLoading, selectedChat, messages,
                   processedMessageIds, isSending, pendingSend, tempSeq, serverMsgs,
                   loads, recounts, started, history, run>>

\* ---- loadMessages: the response of getMessages(conversationId) ----
\* the request was issued when the server held `at` messages and is answered
\* from the server's first n messages, at <= n
LoadMessagesResolve(c, at, n) ==
    /\ loads[<<c, at>>] > 0
    /\ n \in at..Len(serverMsgs)
    /\ loads' = [loads EXCEPT ![<<c, at>>] = @ - 1]
    /\ messages' = ServerList(c, n)
    /\ processedMessageIds' = RebuildProcessed(messages')
    /\ viewport' = Viewed(messages', TRUE, FALSE, 0, TRUE)
    /\ history' = IF Recorded(Switches) /\ c = selectedChat
                  THEN [history EXCEPT !.loaded = c] ELSE history
    /\ UNCHANGED serviceVars
    /\ UNCHANGED <<isOnline, lastMessage, markRead, reconnection, notification>>
    /\ UNCHANGED <<build, asyncStorage, requests, newMessage, conversations, isLoading, selectedChat, isSending,
                   pendingSend, tempSeq, serverMsgs, unreadCounts, totalUnreadCount,
                   resetTimers, recounts, started, run>>

LoadMessagesFail(c, at) ==
    /\ loads[<<c, at>>] > 0
    /\ loads' = [loads EXCEPT ![<<c, at>>] = @ - 1]
    /\ history' = Alerted(AlertMessages)
    /\ viewport' = Viewed(messages, viewport.isNearBottom, FALSE, 0, FALSE)
    /\ UNCHANGED serviceVars
    /\ UNCHANGED <<isOnline, lastMessage, markRead, reconnection, notification>>
    /\ UNCHANGED <<build, asyncStorage, requests, newMessage, conversations, isLoading, selectedChat, messages,
                   processedMessageIds, isSending, pendingSend, tempSeq, serverMsgs,
                   unreadCounts, totalUnreadCount, resetTimers, recounts, started, run>>

\* ---- loadUnreadCounts ("tabs"): the loop has fetched every conversation ----
\* counts and totalUnread when conversation c1 is answered from the server's
\* first n1 messages and c2 from its first n2; isRead[c] of the received
\* messages carry isRead (the server's flags are not part of this program);
\* a failed fetch leaves the conversation out of `counts`
UnreadCountsLoaded(n1, n2, ok, isRead) ==
    [c \in Convs |->
        IF ~ok[c] THEN 0
        ELSE ReceivedOnServer(c, IF c = "c1" THEN n1 ELSE n2) - isRead[c]]

\* every loadUnreadCounts run in flight was started by a user-status-changed event
StartedByPresence ==
    history.presenceRecounts > 0 /\ history.presenceRecounts = Total(recounts)

\* the run was started when the server held `at` messages
LoadUnreadCountsResolve(at) ==
    /\ recounts[at] > 0
    /\ recounts' = [recounts EXCEPT ![at] = @ - 1]
    /\ \E n1 \in at..Len(serverMsgs), ok \in [Convs -> BOOLEAN],
          isRead \in [Convs -> 0..MaxStored] :
          \E n2 \in n1..Len(serverMsgs) :
             /\ isRead["c1"] <= ReceivedOnServer("c1", n1)
             /\ isRead["c2"] <= ReceivedOnServer("c2", n2)
             /\ unreadCounts' = UnreadCountsLoaded(n1, n2, ok, isRead)
             /\ totalUnreadCount' = Total(unreadCounts')
    /\ history' = IF Recorded(Presence) /\ StartedByPresence
                  THEN [history EXCEPT !.presenceRecounts = @ - 1]
                  ELSE history
    /\ UNCHANGED serviceVars
    /\ UNCHANGED viewVars
    /\ UNCHANGED <<build, asyncStorage, requests, newMessage, conversations, isLoading, selectedChat, messages,
                   processedMessageIds, isSending, pendingSend, tempSeq, serverMsgs,
                   loads, resetTimers, started, run>>


\* ---- the server stores messages ----
PeerCount == Cardinality({i \in 1..Len(serverMsgs) : serverMsgs[i].senderId # Me})

\* the other participant of conversation c sends a text
PeerSends(c) ==
    /\ PeerCount + tempSeq < run.msgLimit
    /\ serverMsgs' = Append(serverMsgs,
           Msg(ServerId(Len(serverMsgs) + 1), c, Participant[c], TextContent, "TEXT"))
    /\ UNCHANGED serviceVars
    /\ UNCHANGED viewVars
    /\ UNCHANGED <<build, asyncStorage, requests, newMessage, conversations, isLoading, selectedChat, messages,
                   processedMessageIds, isSending, pendingSend, tempSeq, loads,
                   unreadCounts, totalUnreadCount, resetTimers, recounts, started, history, run>>

\* the server stores the message of the send in flight; from now on it can
\* answer the HTTP request and emit new-message for it
ServerStoresSend(content) ==
    /\ pendingSend # NoSend
    /\ pendingSend.srv = 0
    /\ content \in (IF pendingSend.type = "TEXT" THEN TextContents ELSE ImageContents)
    /\ serverMsgs' = Append(serverMsgs,
           Msg(ServerId(Len(serverMsgs) + 1), pendingSend.conversationId, Me,
               content, pendingSend.type))
    /\ pendingSend' = [pendingSend EXCEPT !.srv = Len(serverMsgs) + 1]
    /\ UNCHANGED serviceVars
    /\ UNCHANGED viewVars
    /\ UNCHANGED <<build, asyncStorage, requests, newMessage, conversations, isLoading, selectedChat, messages,
                   processedMessageIds, isSending, tempSeq, loads, unreadCounts,
                   totalUnreadCount, resetTimers, recounts, started, history, run>>

\* ---- sending ----
\* onChangeText of the TextInput, which is rendered while a chat is open; the
\* user edits the text only while the run can still take a message
ChangeText(text) ==
    /\ Recorded(Draft)
    /\ selectedChat # NoChat
    /\ PeerCount + tempSeq < run.msgLimit
    /\ newMessage' = text
    /\ IF selectedChat \in conversations
       THEN /\ wire' = Wired(IF Trim(text) # ""
                             THEN Emit("typing-start", selectedChat) ELSE wire)
            /\ typingDebounce' = selectedChat
       ELSE UNCHANGED <<wire, typingDebounce>>
    /\ UNCHANGED <<socket, rooms, isTyping, typingTimeout>>
    /\ UNCHANGED viewVars
    /\ UNCHANGED <<build, asyncStorage, requests, conversations, isLoading, selectedChat, messages,
                   processedMessageIds, isSending, pendingSend, tempSeq, serverMsgs,
                   loads, unreadCounts, totalUnreadCount, resetTimers, recounts,
                   started, history, run>>

\* a guard that lets a blank text through
SendMessageGuardBlank == selectedChat # NoChat /\ ~isSending
\* !newMessage.trim() || !selectedChat || isSending: return
SendMessageGuard == Trim(Input) # "" /\ selectedChat # NoChat /\ ~isSending

\* !selectedConv || isSending: return
SendImageGuard == selectedChat \in conversations /\ ~isSending

\* sendMessage up to its await: guard, optimistic insert
SendMessage ==
    /\ SendMessageGuard
    /\ selectedChat \in conversations
    /\ PeerCount + tempSeq < run.msgLimit
    /\ isSending' = TRUE
    /\ newMessage' = IF Recorded(Draft) THEN "" ELSE newMessage
    /\ tempSeq' = tempSeq + 1
    /\ pendingSend' = [tempId |-> TempId(tempSeq + 1), conversationId |-> selectedChat,
                       type |-> "TEXT", content |-> Trim(Input), srv |-> 0]
    /\ messages' = Append(messages,
           Msg(TempId(tempSeq + 1), selectedChat, Me, Trim(Input), "TEXT"))
    /\ processedMessageIds' = RebuildProcessed(messages')
    /\ wire' = Wired(Emit("typing-stop", selectedChat))
    /\ viewport' = Viewed(messages', viewport.isNearBottom, viewport.isLoadingMessages, 1, FALSE)
    /\ UNCHANGED <<socket, rooms, typingDebounce, isTyping, typingTimeout>>
    /\ UNCHANGED <<isOnline, lastMessage, markRead, reconnection, notification>>
    /\ UNCHANGED <<build, asyncStorage, requests, conversations, isLoading, selectedChat, serverMsgs, loads,
                   unreadCounts, totalUnreadCount, resetTimers, recounts, started, history, run>>

\* sendImageMessage up to its await
SendImageMessage ==
    /\ SendImageGuard
    /\ PeerCount + tempSeq < run.msgLimit
    /\ isSending' = TRUE
    /\ tempSeq' = tempSeq + 1
    /\ pendingSend' = [tempId |-> TempImgId(tempSeq + 1), conversationId |-> selectedChat,
                       type |-> "IMAGE", content |-> NoContent, srv |-> 0]
    /\ messages' = Append(messages,
           Msg(TempImgId(tempSeq + 1), selectedChat, Me, NoContent, "IMAGE"))
    /\ processedMessageIds' = RebuildProcessed(messages')
    /\ viewport' = Viewed(messages', viewport.isNearBottom, viewport.isLoadingMessages, 1, FALSE)
    /\ UNCHANGED serviceVars
    /\ UNCHANGED <<isOnline, lastMessage, markRead, reconnection, notification>>
    /\ UNCHANGED <<build, asyncStorage, requests, newMessage, conversations, isLoading, selectedChat, serverMsgs, loads,
                   unreadCounts, totalUnreadCount, resetTimers, recounts, started, history, run>>

\* a finally block that leaves the flag as it is
SendFinallySkipped == isSending
\* finally { setIsSending(false) }
SendFinally == FALSE

\* the HTTP response arrives: the rest of the try block and the finally block
SendResolve ==
    /\ pendingSend # NoSend
    /\ pendingSend.srv # 0
    /\ LET message == serverMsgs[pendingSend.srv]
           tempId == pendingSend.tempId
       IN messages' = IF pendingSend.type = "TEXT"
                      THEN SendMessageUpdater(messages, tempId, message)
                      ELSE SendImageUpdater(messages, tempId, message)
    /\ processedMessageIds' = RebuildProcessed(messages')
    /\ recounts' = RecountStarted(conversations)
    /\ started' = StartedAfter(FALSE, TRUE, conversations)
    /\ isSending' = SendFinally
    /\ pendingSend' = NoSend
    /\ lastMessage' = updateConversationLocally(serverMsgs[pendingSend.srv])
    /\ conversations' = {conv.id : conv \in MapConversations(conversations,
                                          ForMessage(serverMsgs[pendingSend.srv]))}
    /\ viewport' = Viewed(messages', viewport.isNearBottom, viewport.isLoadingMessages, 1, FALSE)
    /\ UNCHANGED <<isOnline, markRead, reconnection, notification>>
    /\ UNCHANGED serviceVars
    /\ UNCHANGED <<build, asyncStorage, requests, newMessage, isLoading, selectedChat, tempSeq, serverMsgs,
                   loads, unreadCounts, totalUnreadCount, resetTimers, history, run>>

\* a catch block that leaves the input empty
SendMessageRestoredEmpty(messageContent) == ""
\* setNewMessage(messageContent) of the catch block
SendMessageRestored(messageContent) == messageContent

\* the HTTP request fails (the server may or may not have stored the message):
\* the catch block and the finally block
SendFail ==
    /\ pendingSend # NoSend
    /\ messages' = IF pendingSend.type = "TEXT"
                   THEN SendMessageRollback(messages)
                   ELSE SendImageRollback(messages)
    /\ processedMessageIds' = RebuildProcessed(messages')
    /\ newMessage' = IF pendingSend.type = "TEXT" /\ Recorded(Draft)
                     THEN SendMessageRestored(pendingSend.content)
                     ELSE newMessage
    /\ history' = Alerted(IF pendingSend.type = "TEXT" THEN AlertSend ELSE AlertImage)
    /\ isSending' = SendFinally
    /\ pendingSend' = NoSend
    /\ viewport' = Viewed(messages', viewport.isNearBottom, viewport.isLoadingMessages, 0, FALSE)
    /\ UNCHANGED serviceVars
    /\ UNCHANGED <<isOnline, lastMessage, markRead, reconnection, notification>>
    /\ UNCHANGED <<build, asyncStorage, requests, conversations, isLoading, selectedChat, tempSeq, serverMsgs,
                   loads, unreadCounts, totalUnreadCount, resetTimers, recounts, started, run>>

\* ---- the new-message handler ----
\* the conversations whose counter the non-active branch increments (none or one)
UnreadTarget(message) ==
    IF build = "screen"
    THEN {c \in HandlerConversations :
            \/ message.senderId = Participant[c] /\ message.receiverId = Me
            \/ message.receiverId = Participant[c] /\ message.senderId = Me}
    ELSE IF message.receiverId = Me /\ message.senderId # Me
         THEN {c \in HandlerConversations : c = message.conversationId}
         ELSE {}

\* a handler whose selectedChatRef is never set
IsForActiveNever(message) == FALSE
\* const isForActive = activeChat && message.conversationId === activeChat
IsForActive(message) == selectedChat # NoChat /\ message.conversationId = selectedChat

\* if (message.receiverId === currentUserId) setTimeout(() => markMessageAsRead(id)..., 800)
MarkReadDue(message) == IsForActive(message) /\ message.receiverId = Me

\* markRead after the handler has set the timer for the n-th message
MarkReadScheduled(n) ==
    [markRead EXCEPT ![n] = [@ EXCEPT !.scheduled = @ + 1, !.timers = @ + 1]]

\* socketService.on('new-message', ...) runs for a message the server has stored;
\* the server may emit the same message any number of times
NewMessage(message) ==
    /\ (Recorded(MarkReads) /\ message.id \notin processedMessageIds /\ MarkReadDue(message))
          => markRead[message.id[2]].scheduled < MaxMarkReads
    /\ history' = IF Recorded(Deliveries)
                  THEN [history EXCEPT
                          !.delivered = @ \cup {message.id},
                          !.sinceSelect = IF IsForActive(message)
                                          THEN @ \cup {message.id} ELSE @]
                  ELSE history
    /\ IF message.id \in processedMessageIds
       THEN UNCHANGED <<messages, processedMessageIds, unreadCounts, totalUnreadCount,
                        recounts, started, lastMessage, markRead, viewport, conversations>>
       ELSE /\ IF IsForActive(message)
               THEN /\ messages' = NewMessageUpdater(messages, message)
                    /\ processedMessageIds' = RebuildProcessed(messages')
                    /\ viewport' = Viewed(messages', viewport.isNearBottom,
                                           viewport.isLoadingMessages,
                                           IF AutoScrollDue(message) THEN 1 ELSE 0, FALSE)
                                    /\ UNCHANGED <<unreadCounts, totalUnreadCount>>
               ELSE /\ processedMessageIds' = processedMessageIds \cup {message.id}
                    /\ UNCHANGED viewport
                    /\ unreadCounts' = [c \in Convs |->
                          IF c \in UnreadTarget(message)
                          THEN unreadCounts[c] + 1 ELSE unreadCounts[c]]
                    /\ totalUnreadCount' =
                          IF build = "tabs" /\ UnreadTarget(message) # {}
                          THEN totalUnreadCount + 1 ELSE totalUnreadCount
                    /\ UNCHANGED messages
            /\ markRead' = IF Recorded(MarkReads) /\ MarkReadDue(message)
                           THEN MarkReadScheduled(message.id[2]) ELSE markRead
            /\ lastMessage' = updateConversationLocally(message)
            /\ conversations' = {conv.id : conv \in MapConversations(conversations,
                                                  ForMessage(message))}
            /\ recounts' = RecountStarted(conversations)
            /\ started' = StartedAfter(FALSE, TRUE, conversations)
    /\ UNCHANGED <<isOnline, reconnection, notification>>
    /\ UNCHANGED serviceVars
    /\ UNCHANGED <<build, asyncStorage, requests, newMessage, isLoading, selectedChat, isSending,
                   pendingSend, tempSeq, serverMsgs, loads, resetTimers, run>>

ServerMessages == {serverMsgs[i] : i \in 1..Len(serverMsgs)}

\* ---- markMessageAsRead ----
\* the 800 ms timer of the n-th message fires: this.api.patch('/messages/<id>', ...)
MarkReadTimerFires(n) ==
    /\ markRead[n].timers > 0
    /\ markRead' = [markRead EXCEPT ![n] = [@ EXCEPT !.timers = @ - 1, !.requests = @ + 1]]
    /\ UNCHANGED <<isOnline, lastMessage, reconnection, notification, viewport>>
    /\ UNCHANGED serviceVars
    /\ UNCHANGED apiVars
    /\ UNCHANGED history
    /\ UNCHANGED chatVars

\* the request is answered: on success nothing follows, a failure passes the
\* response interceptor and is swallowed by .catch(() => { })
MarkReadAnswer(n, status) ==
    /\ markRead[n].requests > 0
    /\ markRead' = [markRead EXCEPT ![n] = [@ EXCEPT !.requests = @ - 1]]
    /\ asyncStorage' = AfterAnswer("api", status)
    /\ UNCHANGED <<isOnline, lastMessage, reconnection, notification, viewport>>
    /\ UNCHANGED serviceVars
    /\ UNCHANGED <<requests, history>>
    /\ UNCHANGED chatVars

\* ---- the user-status-changed handler ----
\* prev.map(c => c.participant.id === userId
\*               ? { ...c, participant: { ...c.participant, isOnline } } : c)
StatusChanged(userId, online) ==
    [c \in Convs |->
        IF c \in conversations /\ Participant[c] = userId THEN online ELSE isOnline[c]]

\* socketService.on('user-status-changed', ...): setConversations with a new
\* array, after which useEffect([conversations, user?.id]) of "tabs" runs
\* loadUnreadCounts
UserStatusChanged(userId, online) ==
    /\ socket.open /\ socket.connected /\ socket.listeners
    /\ isOnline' = StatusChanged(userId, online)
    /\ conversations' = {conv.id : conv \in MapConversations(conversations,
                                          OfParticipant(userId))}
    /\ recounts' = RecountStarted(conversations)
    /\ started' = StartedAfter(FALSE, TRUE, conversations)
    /\ history' = IF Recorded(Presence) /\ RecountFollowed(conversations)
                  THEN [history EXCEPT !.presenceRecounts = @ + 1]
                  ELSE history
    /\ UNCHANGED <<lastMessage, markRead, reconnection, notification, viewport>>
    /\ UNCHANGED serviceVars
    /\ UNCHANGED apiVars
    /\ UNCHANGED <<build, newMessage, isLoading, selectedChat, messages,
                   processedMessageIds, isSending, pendingSend, tempSeq, serverMsgs, loads,
                   unreadCounts, totalUnreadCount, resetTimers, run>>

\* ---- the message-read handler ----
\* an updater that marks the whole list
MarkReadAll(prev, messageId) ==
    [i \in 1..Len(prev) |-> [prev[i] EXCEPT !.isRead = TRUE]]
\* prev.map(m => m.id === messageId ? { ...m, isRead: true, readAt } : m)
MarkReadIn(prev, messageId) ==
    [i \in 1..Len(prev) |->
        IF prev[i].id = messageId THEN [prev[i] EXCEPT !.isRead = TRUE] ELSE prev[i]]

\* socketService.on('message-read', ...) for a receipt the server emits; the
\* new array makes useEffect([messages]) rebuild processedMessageIds
MessageRead(messageId) ==
    /\ socket.open /\ socket.connected /\ socket.listeners
    /\ messages' = MarkReadIn(messages, messageId)
    /\ processedMessageIds' = RebuildProcessed(messages')
    /\ UNCHANGED serviceVars
    /\ UNCHANGED viewVars
    /\ UNCHANGED apiVars
    /\ UNCHANGED <<build, newMessage, conversations, isLoading, selectedChat, isSending,
                   pendingSend, tempSeq, serverMsgs, loads, unreadCounts, totalUnreadCount,
                   resetTimers, recounts, started, history, run>>

\* the server emits new-message for the n-th message it holds, over the
\* connected socket to the attached handler
EmitNewMessage(n) ==
    /\ socket.open /\ socket.connected /\ socket.listeners
    /\ n <= Len(serverMsgs)
    /\ NewMessage(serverMsgs[n])

\* the conversation list and the switch between list and chat
ListNext ==
    \/ LoadConversationsResolve
    \/ LoadConversationsFail
    \/ \E c \in Convs : SelectChat(c)
    \/ Back
    \/ \E c \in Convs : MarkAsReadTimer(c)

\* the answers to loadMessages and loadUnreadCounts
RequestNext ==
    \/ \E c \in Convs, at \in 0..MaxStored, n \in 0..MaxStored : LoadMessagesResolve(c, at, n)
    \/ \E c \in Convs, at \in 0..MaxStored : LoadMessagesFail(c, at)
    \/ \E at \in 0..MaxStored : LoadUnreadCountsResolve(at)

\* messages: stored by the server, sent, confirmed, delivered
MessageNext ==
    \/ \E c \in Convs : PeerSends(c)
    \/ \E content \in TextContents \cup ImageContents : ServerStoresSend(content)
    \/ SendMessage
    \/ SendImageMessage
    \/ SendResolve
    \/ SendFail
    \/ \E n \in 1..MaxStored : EmitNewMessage(n)

Next == ListNext \/ RequestNext \/ MessageNext

\* the runs that follow the draft and the alerts; their requests stay in flight
InitDraft ==
    InitCommon /\ socket = LiveSocket
               /\ run = [msgLimit |-> MaxMsgs, reqLimit |-> 0,
                         recording |-> {Draft, Alerts}]

NextDraft ==
    \/ ListNext
    \/ MessageNext
    \/ \E text \in Drafts : ChangeText(text)

\* the runs of ChatScreen that follow the viewport of the message list; their
\* requests are answered
InitViewport ==
    InitCommon /\ build = "screen" /\ socket = LiveSocket
               /\ run = [msgLimit |-> MaxMsgs, reqLimit |-> MaxRequests,
                         recording |-> {Viewport}]

NextViewport ==
    \/ LoadConversationsResolve
    \/ \E c \in Convs : SelectChat(c)
    \/ Back
    \/ \E c \in Convs, at \in 0..MaxStored, n \in 0..MaxStored : LoadMessagesResolve(c, at, n)
    \/ \E c \in Convs : PeerSends(c)
    \/ \E content \in TextContents \cup ImageContents : ServerStoresSend(content)
    \/ SendMessage
    \/ SendImageMessage
    \/ SendResolve
    \/ \E n \in 1..MaxStored : EmitNewMessage(n)
    \/ \E isAtBottom \in BOOLEAN : HandleScroll(isAtBottom)
    \/ AutoScrollFires

\* the runs of ChatScreen in which the loads of two openings are answered
InitSwitch ==
    InitCommon /\ build = "screen" /\ socket = LiveSocket
               /\ run = [msgLimit |-> MaxMsgs, reqLimit |-> MaxRequests + 1,
                         recording |-> {Switches}]

NextSwitch ==
    \/ LoadConversationsResolve
    \/ LoadConversationsFail
    \/ \E c \in Convs : SelectChat(c)
    \/ Back
    \/ \E c \in Convs, at \in 0..MaxStored, n \in 0..MaxStored : LoadMessagesResolve(c, at, n)
    \/ \E c \in Convs, at \in 0..MaxStored : LoadMessagesFail(c, at)
    \/ MessageNext

\* the runs that follow the read receipts; their requests stay in flight
InitReceipt ==
    InitCommon /\ socket = LiveSocket
               /\ run = [msgLimit |-> MaxMsgs, reqLimit |-> 0, recording |-> {}]

NextReceipt ==
    \/ ListNext
    \/ MessageNext
    \/ \E n \in 1..MaxStored : MessageRead(ServerId(n))

\* the runs that follow the summaries of the conversations and the
\* deliveries; their requests stay in flight
InitSummary ==
    InitCommon /\ socket = LiveSocket
               /\ run = [msgLimit |-> MaxMsgs, reqLimit |-> 0,
                         recording |-> {Summaries, Deliveries}]

NextSummary == ListNext \/ MessageNext

\* the runs that follow the mark-read timers and requests
InitMarkRead ==
    InitCommon /\ socket = LiveSocket
               /\ run = [msgLimit |-> MaxMsgs, reqLimit |-> 0,
                         recording |-> {MarkReads, Alerts}]

NextMarkRead ==
    \/ ListNext
    \/ MessageNext
    \/ \E n \in 1..MaxStored : MarkReadTimerFires(n)
    \/ \E n \in 1..MaxStored, status \in Statuses : MarkReadAnswer(n, status)

\* the runs that follow the reconnection attempts of the socket
\* what socket.io does by itself after a drop: an attempt fails or succeeds
ReconnectNext ==
    \/ ReconnectFails
    \/ SocketConnects

NextReconnect ==
    \/ LoadConversationsResolve
    \/ \E c \in Convs : SelectChat(c)
    \/ Back
    \/ Connect
    \/ ConnectResume
    \/ Disconnect
    \/ SocketDrops
    \/ ReconnectNext

\* the runs that follow presence: one more request is followed to its end
InitPresence ==
    InitCommon /\ socket = LiveSocket
               /\ run = [msgLimit |-> MaxMsgs, reqLimit |-> MaxRequests + 1,
                         recording |-> {Presence}]

NextPresence ==
    \/ Next
    \/ \E userId \in Users, online \in BOOLEAN : UserStatusChanged(userId, online)

\* the runs that follow the socket: the screen has mounted while connect()
\* was still awaiting the token (no socket yet, so socketService.on attached
\* nothing) or after it (listeners attached); requests stay in flight
InitSocket ==
    /\ InitCommon
    /\ socket \in {[NoSocket EXCEPT !.awaiting = 1],
                   [LiveSocket EXCEPT !.connected = FALSE]}
    /\ run = [msgLimit |-> MaxMsgs, reqLimit |-> 0, recording |-> {Draft, Wire}]

\* what the socket and its timers do without the user
SocketNext ==
    \/ ConnectResume
    \/ SocketConnects
    \/ TypingDebounceFires

NextSocket ==
    \/ LoadConversationsResolve
    \/ \E c \in Convs : SelectChat(c)
    \/ Back
    \/ \E text \in Drafts : ChangeText(text)
    \/ SendMessage
    \/ SendFail
    \/ Connect
    \/ Disconnect
    \/ SocketDrops
    \/ SocketNext

\* the runs that follow the sockets the service has created
InitHandle ==
    /\ InitCommon
    /\ socket \in {[NoSocket EXCEPT !.awaiting = 1],
                   [LiveSocket EXCEPT !.connected = FALSE]}
    /\ run = [msgLimit |-> MaxMsgs, reqLimit |-> 0, recording |-> {Draft, Wire, Handles}]

\* the runs that follow the typing indicator
InitTyping ==
    /\ InitCommon
    /\ socket = LiveSocket
    /\ run = [msgLimit |-> 0, reqLimit |-> 0, recording |-> {}]

NextTyping ==
    \/ LoadConversationsResolve
    \/ LoadConversationsFail
    \/ \E c \in Convs : SelectChat(c)
    \/ Back
    \/ Connect
    \/ ConnectResume
    \/ Disconnect
    \/ SocketDrops
    \/ SocketConnects
    \/ \E c \in Convs, userId \in Users : UserTyping(userId, c)
    \/ \E c \in Convs, userId \in Users : UserStoppedTyping(userId, c)
    \/ \E id \in typingTimeout.pending : TypingTimeoutFires(id)

\* the runs that follow the conversation the typing indicator was set for
InitTypingFor ==
    /\ InitCommon
    /\ socket = LiveSocket
    /\ run = [msgLimit |-> 0, reqLimit |-> 0, recording |-> {Typings}]

\* the runs in which every HTTP request of a send is answered or fails
InitSend ==
    InitCommon /\ socket = LiveSocket
               /\ run = [msgLimit |-> MaxMsgs, reqLimit |-> 0, recording |-> {}]

\* the request of the pending send resolves, fails or times out
SendSettles == SendResolve \/ SendFail

NextSend == ListNext \/ MessageNext

\* the runs that follow the listeners of the screen: the screen has mounted
\* before the socket existed and sets its listeners up any number of times
InitSetup ==
    /\ InitCommon
    /\ socket = [NoSocket EXCEPT !.awaiting = 1]
    /\ run = [msgLimit |-> 0, reqLimit |-> 0, recording |-> {Subscriptions}]

NextSetup ==
    \/ NextTyping
    \/ SetupSocketListeners

\* the runs that follow the stored credential
NextApi ==
    \/ ApiRequest
    \/ ImageProbeRequest
    \/ \E request \in requests, status \in Statuses : ApiAnswer(request, status)
    \/ \E request \in requests, status \in Statuses : ImageProbeAnswer(request, status)
    \/ \E request \in requests, status \in Statuses : ImageUploadAnswer(request, status)
    \/ \E token \in Tokens : Login(token)
    \/ Logout

\* the runs that follow the notification settings
NextSettings ==
    \/ NextApi
    \/ \E call \in {"get", "update"} : NotificationSettingsRequest(call)
    \/ \E status \in SettingsStatuses, data \in StoredSettings \cup {Success} :
          NotificationSettingsAnswer(status, data)

Spec == Init /\ [][Next]_vars
SpecSocket == InitSocket /\ [][NextSocket]_vars
\* timers fire, awaited reads return and socket.io reconnects (reconnection: true)
SpecSocketFair == SpecSocket /\ WF_vars(SocketNext)
SpecTyping == InitTyping /\ [][NextTyping]_vars
SpecApi == InitTyping /\ [][NextApi]_vars
SpecReceipt == InitReceipt /\ [][NextReceipt]_vars
SpecViewport == InitViewport /\ [][NextViewport]_vars
SpecHandle == InitHandle /\ [][NextSocket]_vars
SpecTypingFor == InitTypingFor /\ [][NextTyping]_vars
SpecSend == InitSend /\ [][NextSend]_vars /\ WF_vars(SendSettles)
SpecSetup == InitSetup /\ [][NextSetup]_vars
SpecSwitch == InitSwitch /\ [][NextSwitch]_vars
SpecSettings == InitTyping /\ [][NextSettings]_vars
\* every attempt ends: it connects or fails within SOCKET_CONFIG.timeout
SpecReconnect == InitTyping /\ [][NextReconnect]_vars /\ WF_vars(ReconnectNext)
SpecMarkRead == InitMarkRead /\ [][NextMarkRead]_vars
SpecSummary == InitSummary /\ [][NextSummary]_vars
SpecPresence == InitPresence /\ [][NextPresence]_vars
SpecDraft == InitDraft /\ [][NextDraft]_vars
SpecWide == InitWide /\ [][Next]_vars
SpecRecorded == InitRecorded /\ [][Next]_vars

\* ---- properties ----
SentMessage == serverMsgs[pendingSend.srv]

\* C1: the message list never contains two entries with the same
\* server-assigned identity, whatever the interleaving of text sends, image
\* sends, HTTP confirmations and (repeated) new-message deliveries.
C1_NoDuplicates ==
    \A i, j \in 1..Len(messages) :
        (i < j /\ ~StartsWithTemp(messages[i].id)) => messages[i].id # messages[j].id

\* C2: when the reload issued for conversation A resolves while another
\* conversation B is the active one, the message list is not changed.
C2_StaleReloadDiscarded ==
    [][\A c \in Convs, at \in 0..MaxStored, n \in 0..MaxStored :
          (LoadMessagesResolve(c, at, n) /\ selectedChat # NoChat /\ c # selectedChat)
             => messages' = messages]_vars

\* C3: a provisional message at position k that is confirmed, by the HTTP
\* response or by a matching new-message event, is replaced at position k by
\* the confirmed message and the list keeps its length.
C3_ReplacementKeepsPosition ==
    [][/\ (SendResolve /\ Positions(messages, pendingSend.tempId) # {})
             => LET k == FirstOf(Positions(messages, pendingSend.tempId))
                IN /\ Len(messages') = Len(messages)
                   /\ messages'[k] = SentMessage
       /\ \A m \in ServerMessages :
             (/\ NewMessage(m)
              /\ m.conversationId = selectedChat
              /\ m.id \notin processedMessageIds
              /\ m.id \notin Ids(messages)
              /\ TempMatches(messages, m) # {})
             => /\ Len(messages') = Len(messages)
                /\ messages'[FirstOf(TempMatches(messages, m))] = m]_vars

\* C4: a new-message for the current user, from someone else, in a loaded
\* conversation that is not active raises that conversation's unread counter
\* by exactly 1 on its first delivery and by nothing on a redelivery ("tabs").
C4_UnreadExactlyOnce ==
    [][\A m \in ServerMessages :
          (/\ build = "tabs"
           /\ NewMessage(m)
           /\ m.receiverId = Me /\ m.senderId # Me
           /\ m.conversationId \in conversations
           /\ m.conversationId # selectedChat)
          => unreadCounts'[m.conversationId] =
                unreadCounts[m.conversationId]
                   + (IF m.id \in history.delivered THEN 0 ELSE 1)]_vars

\* C5: the total unread count equals the sum of the per-conversation unread
\* counters and every counter is a non-negative integer, in every reachable
\* state.
C5_UnreadConservation ==
    /\ \A c \in Convs : unreadCounts[c] \in Nat
    /\ totalUnreadCount \in Nat
    /\ build = "tabs" => totalUnreadCount = Total(unreadCounts)

\* a recount has found unread messages while a delayed reset is pending
C5_Witness ==
    /\ build = "tabs"
    /\ resetTimers # {}
    /\ totalUnreadCount > 0

\* C6: a new-message whose sender is the current user leaves every unread
\* counter and the total unchanged, whether or not its conversation is active.
C6_SelfNeverIncrements ==
    [][\A m \in ServerMessages :
          (m.senderId = Me /\ NewMessage(m))
             => /\ unreadCounts' = unreadCounts
                /\ totalUnreadCount' = totalUnreadCount]_vars

\* the handler has processed, in its non-active branch, an own message of a
\* loaded conversation: only that branch leaves an id in processedMessageIds
\* that is not in the list
C6_Witness ==
    \E m \in ServerMessages :
        /\ m.senderId = Me
        /\ m.conversationId \in conversations
        /\ m.conversationId # selectedChat
        /\ m.id \in processedMessageIds
        /\ m.id \notin Ids(messages)

\* C7: a new-message for the active conversation is applied to the message
\* list and does not change that conversation's unread counter.
C7_ActiveSuppressesUnread ==
    [][\A m \in ServerMessages :
          (selectedChat # NoChat /\ m.conversationId = selectedChat /\ NewMessage(m))
             => /\ unreadCounts'[m.conversationId] = unreadCounts[m.conversationId]
                /\ m.id \notin processedMessageIds => m.id \in Ids(messages')]_vars

\* the handler has applied a message from the peer to the active conversation:
\* no reload has been answered yet, so the list got it from the handler
C7_Witness ==
    \E m \in ServerMessages :
        /\ m.receiverId = Me
        /\ m.conversationId = selectedChat
        /\ m.id \in Ids(messages)
        /\ started.loads = Total(loads)

\* C8: making conversation c active resets its unread counter: "screen" sets
\* it to zero in the same step; "tabs" arms the markAsRead timeout, whose
\* callback sets it to zero and lowers the total by the counter's prior value.
\* The outcome of the message reload changes neither counter nor timeout.
C8_ResetOnActivation ==
    [][/\ \A c \in Convs :
             /\ SelectChat(c) =>
                   IF build = "screen" THEN unreadCounts'[c] = 0
                   ELSE c \in resetTimers'
             /\ MarkAsReadTimer(c) =>
                   /\ unreadCounts'[c] = 0
                   /\ totalUnreadCount' = totalUnreadCount - unreadCounts[c]
       /\ (/\ loads' # loads
           /\ \E c \in Convs, at \in 0..MaxStored :
                 \/ LoadMessagesFail(c, at)
                 \/ \E n \in 0..MaxStored : LoadMessagesResolve(c, at, n))
             => UNCHANGED <<unreadCounts, totalUnreadCount, resetTimers>>]_vars

\* the user has opened a conversation with unread messages and the delayed
\* reset is due
C8_Witness ==
    /\ build = "tabs"
    /\ selectedChat \in resetTimers
    /\ unreadCounts[selectedChat] > 0

\* C9: for a send in the active conversation, the later of the HTTP response
\* and the echoed new-message leaves exactly one entry with the server
\* identity and no provisional entry, and changes the list at most by removing
\* the provisional entry.
C9_WhicheverFirst ==
    [][/\ (/\ SendResolve
           /\ pendingSend.conversationId = selectedChat
           /\ SentMessage.id \in Ids(messages))
             => /\ messages' = SelectSeq(messages, LAMBDA x : x.id # pendingSend.tempId)
                /\ Count(messages', SentMessage.id) = 1
       /\ \A m \in ServerMessages :
             (/\ NewMessage(m)
              /\ m.senderId = Me
              /\ m.conversationId = selectedChat
              /\ pendingSend = NoSend
              /\ m.id \in Ids(messages))
             => /\ messages' = messages
                /\ Count(messages', m.id) = 1]_vars

\* C10: a new-message delivered again for the active conversation, while that
\* conversation has stayed active since the earlier delivery, leaves the
\* message list as it was.
C10_InboundIdempotent ==
    [][\A m \in ServerMessages :
          (/\ NewMessage(m)
           /\ m.conversationId = selectedChat
           /\ m.id \in history.sinceSelect)
          => messages' = messages]_vars

\* the positions of the provisional entries of a list
Provisional(ms) == {i \in 1..Len(ms) : StartsWithTemp(ms[i].id)}

\* a step that starts a send: a request is issued or a provisional entry is added
SendStarts ==
    \/ pendingSend' # NoSend /\ pendingSend'.tempId # pendingSend.tempId
    \/ Cardinality(Provisional(messages')) > Cardinality(Provisional(messages))

C12_SendFailureRollback ==
    [][(SendFail /\ pendingSend.type = "TEXT")
          => /\ messages' = SelectSeq(messages, LAMBDA m : m.id # pendingSend.tempId)
             /\ newMessage' = pendingSend.content
             /\ history'.alert = AlertSend]_vars

\* a text send has failed: the submitted text is back in the input and the
\* list holds no provisional entry
C12_Witness ==
    /\ history.alert = AlertSend
    /\ newMessage = TextContent
    /\ tempSeq > 0
    /\ pendingSend = NoSend
    /\ Provisional(messages) = {}

\* C13: when the fetch of loadMessages fails and nothing has touched the list
\* since the call, the message list, the processed ids, the unread counters
\* and the conversation list are what they were before loadMessages was
\* called, and an alert is shown.
C13_FailedReloadUntouched ==
    [][\A c \in Convs, at \in 0..MaxStored :
          (/\ LoadMessagesFail(c, at)
           /\ history.reload.conversationId = c
           /\ history.reload.at = at
           /\ messages = history.reload.messages
           /\ processedMessageIds = {})
          => /\ messages' = history.reload.messages
             /\ processedMessageIds' = history.reload.processed
             /\ UNCHANGED <<conversations, unreadCounts, totalUnreadCount>>
             /\ history'.alert = AlertMessages]_vars

Connected == socket.open /\ socket.connected

\* C14: when the connection has dropped and is re-established while a
\* conversation is active, a join-conversation for that conversation is
\* emitted afterwards (or the conversation stops being active, or the
\* connection is lost again).
C14_RejoinAfterReconnect == history.rejoinDue ~> ~history.rejoinDue

\* C15: after disconnect() the service has no socket until connect() is called
\* again, also when a connect() call was awaiting the stored token at that
\* moment: no socket is put in place by a connect() call that disconnect()
\* has overtaken.
C15_DisconnectFromAnyState ==
    /\ [](~(socket.open /\ history.resumedOvertaken))
    /\ [][Disconnect => ~socket'.open /\ ~socket'.connected]_vars

\* the steps that call joinConversation, leaveConversation or sendTyping
EmitStep ==
    \/ \E c \in Convs : SelectChat(c)
    \/ Back
    \/ \E text \in Drafts : ChangeText(text)
    \/ SendMessage
    \/ TypingDebounceFires

\* C16: while the socket is not connected nothing is put on the connection,
\* neither by the step that calls the emit nor by the step that connects the
\* socket, and the emit changes neither the socket nor the server's rooms.
C16_EmitsDroppedNotQueued ==
    [][~Connected
          => /\ wire' = wire
             /\ EmitStep => (socket' = socket /\ rooms' = rooms)]_vars

\* a conversation was opened while the socket was not connected and the socket
\* has connected since: the join was neither sent nor kept for later
C16_Witness ==
    /\ Connected
    /\ selectedChat # NoChat
    /\ rooms = {}
    /\ wire = NoEmission

\* C17: while connected, opening conversation c emits join-conversation c and
\* going back emits leave-conversation for the conversation left and no join;
\* the only room the connection can be in is that of the active conversation.
C17_RoomSignalsOnSwitch ==
    /\ [](rooms \subseteq {selectedChat} /\ Cardinality(rooms) <= 1)
    /\ [][Connected
            => /\ \A c \in Convs :
                    SelectChat(c) => /\ wire' = Emission("join-conversation", c)
                                     /\ rooms' = {c}
               /\ Back => /\ wire' = Emission("leave-conversation", selectedChat)
                          /\ rooms' = {}]_vars

\* the user has typed in one conversation, gone back and opened the other one
\* while connected: the connection is in the room of the second one only
C17_Witness ==
    /\ Connected
    /\ typingDebounce \in Convs
    /\ selectedChat \in Convs
    /\ typingDebounce # selectedChat
    /\ rooms = {selectedChat}

\* C18: a user-typing event of the counterpart for the active conversation
\* turns the indicator on and leaves exactly one countdown pending, the one
\* just armed; the indicator is never on without a pending countdown; the
\* countdown's expiry and a user-stopped-typing event for the active
\* conversation turn the indicator off.
C18_TypingExpiry ==
    /\ [](isTyping => typingTimeout.ref \in typingTimeout.pending)
    /\ [][/\ \A c \in Convs, userId \in Users :
               /\ (UserTyping(userId, c) /\ c = selectedChat /\ userId # Me)
                     => /\ isTyping'
                        /\ typingTimeout'.pending = {typingTimeout'.ref}
               /\ (UserStoppedTyping(userId, c) /\ c = selectedChat /\ userId # Me)
                     => ~isTyping'
          /\ \A id \in typingTimeout.pending : TypingTimeoutFires(id) => ~isTyping']_vars

\* the counterpart has stopped and started typing again: the indicator is on
\* and the countdown armed last is pending
C18_Witness ==
    /\ isTyping
    /\ selectedChat # NoChat
    /\ typingTimeout.pending = {typingTimeout.ref}

\* C19: a user-typing or user-stopped-typing event for a conversation other
\* than the active one, or from the current user, changes neither the
\* indicator nor the countdown.
C19_InactiveTypingIgnored ==
    [][\A c \in Convs, userId \in Users :
          ((UserTyping(userId, c) \/ UserStoppedTyping(userId, c))
             /\ (c # selectedChat \/ userId = Me))
          => UNCHANGED <<isTyping, typingTimeout>>]_vars

\* the indicator is on for the active conversation while the socket can
\* deliver the typing events of the other conversation
C19_Witness ==
    /\ isTyping
    /\ selectedChat # NoChat
    /\ Connected /\ socket.listeners
    /\ typingTimeout.pending # {}

\* C20: when a request of the API service, the connectivity probe and the
\* image upload included, is answered with status 401, the stored token and
\* the stored user are both removed.
C20_AuthFailureClearsCredential ==
    [][\A request \in requests :
          (\/ ApiAnswer(request, 401)
           \/ ImageProbeAnswer(request, 401)
           \/ ImageUploadAnswer(request, 401))
          => asyncStorage' = Removed]_vars

\* C21: a message-read event for message id m sets the read flag of the
\* entries with id m and leaves the length of the list, its order and every
\* other entry as they were; without an entry of id m the list is unchanged,
\* and an entry that was read stays read.
C21_ReadReceiptInPlace ==
    [][\A n \in 1..MaxStored :
          MessageRead(ServerId(n))
          => /\ Len(messages') = Len(messages)
             /\ \A i \in 1..Len(messages) :
                   /\ messages[i].id # ServerId(n) => messages'[i] = messages[i]
                   /\ messages[i].id = ServerId(n)
                         => /\ messages'[i].isRead
                            /\ [messages'[i] EXCEPT !.isRead = FALSE]
                                  = [messages[i] EXCEPT !.isRead = FALSE]]_vars

\* a receipt has reached a confirmed entry of the list
C21_Witness ==
    \E i \in 1..Len(messages) : messages[i].isRead /\ ~StartsWithTemp(messages[i].id)

\* C22: a user-status-changed event sets the online flag of the conversations
\* whose participant is that user and leaves the message list, the unread
\* counters and the total as they were, and so does the loadUnreadCounts run
\* that the event has started, when it completes.
C22_PresenceLeavesCounters ==
    [][/\ \A userId \in Users, online \in BOOLEAN :
             UserStatusChanged(userId, online)
             => /\ \A c \in conversations :
                      isOnline'[c] = IF Participant[c] = userId THEN online
                                     ELSE isOnline[c]
                /\ UNCHANGED <<messages, unreadCounts, totalUnreadCount>>
       /\ \A at \in 0..MaxStored :
             (LoadUnreadCountsResolve(at) /\ StartedByPresence)
             => UNCHANGED <<messages, unreadCounts, totalUnreadCount>>]_vars

\* C23: a new-message that the handler has not processed before, for the
\* active conversation or another one, makes its message the last message of
\* the loaded conversation it belongs to and changes the last message of no
\* other conversation.
C23_SummaryUpdate ==
    [][\A m \in ServerMessages :
          (NewMessage(m) /\ m.id \notin processedMessageIds)
          => \A c \in conversations :
                lastMessage'[c] = IF c = m.conversationId THEN m.id ELSE lastMessage[c]]_vars

\* the message of the counterpart was delivered while its conversation was
\* not the active one, and is that conversation's last message
C23_Witness ==
    \E m \in ServerMessages :
        /\ m.id \in history.delivered
        /\ m.senderId # Me
        /\ m.conversationId \in conversations
        /\ m.conversationId # selectedChat
        /\ m.id \notin history.sinceSelect
        /\ lastMessage[m.conversationId] = m.id

\* C24: for a message delivered to the handler, a mark-read timer is set
\* only when the message is for the active conversation and its receiver is
\* the current user, and then exactly one; over the run no message id gets
\* more than one mark-read request; a failed request changes nothing of the
\* screen's state and shows no alert.
C24_MarkReadDispatch ==
    /\ [](\A n \in 1..MaxStored : markRead[n].scheduled <= 1)
    /\ [][/\ \A m \in ServerMessages :
                (NewMessage(m) /\ m.id \notin processedMessageIds)
                => markRead' = IF IsForActive(m) /\ m.receiverId = Me
                               THEN MarkReadScheduled(m.id[2]) ELSE markRead
          /\ \A n \in 1..MaxStored, status \in Statuses \ {200} :
                MarkReadAnswer(n, status)
                => /\ UNCHANGED chatVars
                   /\ history'.alert = history.alert]_vars

Reconnecting == socket.open /\ ~socket.connected /\ ~reconnection.failed
Failed == socket.open /\ ~socket.connected /\ reconnection.failed

\* C25: after a drop at most 5 attempts are made, and the fifth failure is
\* the end of them; a connection that is trying does not stay at any number
\* of attempts forever: it connects, fails once more, gives up, or is closed
\* or replaced by connect(); a connect() call resumed after the attempts
\* have failed puts a new socket in place that starts connecting afresh.
C25_BoundedReconnection ==
    /\ [](/\ reconnection.attempts <= ReconnectionAttempts
          /\ reconnection.failed <=> reconnection.attempts = ReconnectionAttempts)
    /\ \A k \in 0..ReconnectionAttempts :
          (Reconnecting /\ reconnection.attempts = k)
             ~> ~(Reconnecting /\ reconnection.attempts = k)
    /\ [][(Failed /\ ConnectResume) => Reconnecting' /\ reconnection' = NoReconnection]_vars

\* the attempts have failed and connect() has been called again: it is
\* awaiting the stored token
C25_Witness == Failed /\ socket.awaiting > 0

\* the steps that reconcile the list: a delivery, a confirmation, a rollback
Reconciles ==
    \/ \E n \in 1..MaxStored : EmitNewMessage(n)
    \/ SendResolve
    \/ SendFail

C27_SettingsFallback ==
    [][\A status \in SettingsStatuses, data \in StoredSettings \cup {Success} :
          NotificationSettingsAnswer(status, data)
          => /\ status \in {404, 405}
                   => /\ notification'.outcome = "returned"
                      /\ notification.call = "get" => notification'.value = Defaults
                      /\ notification.call = "update" => notification'.value = Success
             /\ status \notin {200, 404, 405}
                   => /\ notification'.outcome = "thrown"
                      /\ notification'.status = status]_vars

\* the update call was answered 405 and has returned
C27_Witness ==
    /\ notification.call = "update"
    /\ notification.status = 405
    /\ notification.outcome = "returned"

C29_NoLostInbound ==
    [][\A c \in Convs, at \in 0..MaxStored, n \in 0..MaxStored :
          (LoadMessagesResolve(c, at, n) /\ c = selectedChat)
          => \A i \in 1..Len(messages) :
                (/\ messages[i].conversationId = c
                 /\ messages[i].senderId # Me
                 /\ messages[i].id[1] = "m"
                 /\ messages[i].id[2] > at)
                => messages[i].id \in Ids(messages')]_vars

\* C30: the confirmation of a send that was issued in one conversation does
\* not insert the confirmed message into the list when another conversation
\* is active, and once the load of the active conversation has resolved every
\* entry of the list belongs to the active conversation.
C30_WorkingSetOfActive ==
    /\ []((selectedChat # NoChat /\ history.loaded = selectedChat)
            => \A i \in 1..Len(messages) : messages[i].conversationId = selectedChat)
    /\ [][(/\ SendResolve
           /\ selectedChat # NoChat
           /\ pendingSend.conversationId # selectedChat)
          => ServerId(pendingSend.srv) \notin Ids(messages')]_vars

\* C31: whenever the socket of the service is connected (the chat screen is
\* mounted in every state), the handlers of setupSocketListeners are
\* registered on that socket, also when the screen mounted before connect()
\* created the socket and after a disconnect() followed by connect().
C31_HandlersFollowHandle ==
    (socket.open /\ socket.connected) => socket.listeners

\* C32: at every moment at most one socket created by the service is open,
\* also when connect() is called twice before the first call has read the
\* token and when it is called while the socket is connecting or reconnecting.
C32_SingleHandle ==
    ~(socket.open /\ history.orphaned)

\* C33: from the reset that follows the opening of a conversation until the
\* conversation stops being active, its unread counter is zero in every
\* state, also after a recount by loadUnreadCounts.
C33_ActiveStaysZero ==
    \A c \in Convs :
        (selectedChat = c /\ c \notin resetTimers) => unreadCounts[c] = 0

\* C34: while a conversation is active the typing indicator is true only if
\* the last typing-start that was neither stopped nor timed out was for that
\* conversation, and the indicator is false right after another conversation
\* has become active.
C34_TypingPerConversation ==
    /\ []((isTyping /\ selectedChat # NoChat) => history.typingFor = selectedChat)
    /\ [][(selectedChat' # selectedChat /\ selectedChat' # NoChat) => ~isTyping']_vars

\* C35: when a text send fails (the alert is shown and the draft restored),
\* the list holds no entry of that send, neither the provisional one nor the
\* message the server stored for it, also when the echoed new-message event
\* was applied before the request failed.
C35_FailedSendLeavesNothing ==
    [][(SendFail /\ pendingSend.type = "TEXT")
       => /\ pendingSend.tempId \notin Ids(messages')
          /\ pendingSend.srv # 0 => serverMsgs[pendingSend.srv].id \notin Ids(messages')]_vars

\* C36: the sending flag is set exactly while the request of an accepted text
\* or image send is outstanding; the success and the failure of the request
\* both clear it, and when every request resolves, fails or times out a set
\* flag is eventually cleared, so that the guard of a later send passes again.
C36_SendingFlagReleased ==
    /\ [](isSending <=> pendingSend # NoSend)
    /\ [][SendSettles => ~isSending']_vars
    /\ isSending ~> ~isSending

\* a send was accepted, its request has settled and the flag is clear
C36_Witness ==
    /\ tempSeq > 0
    /\ pendingSend = NoSend
    /\ ~isSending

\* C37: after any number of runs of setupSocketListeners on the same socket,
\* each of the five events has exactly one handler of the screen.
C37_OneHandlerPerEvent ==
    (socket.open /\ socket.listeners) => history.handlers = 1

\* the runs that follow the summaries when the server stores two messages:
\* their arrival order can differ from their creation order
InitOrder ==
    InitCommon /\ socket = LiveSocket
               /\ run = [msgLimit |-> MaxStored, reqLimit |-> 0,
                         recording |-> {Summaries, Deliveries}]

SpecOrder == InitOrder /\ [][NextSummary]_vars

\* C38: last activity never goes backwards: when the last message of a loaded
\* conversation is a message the new-message handler has processed, the
\* processing of another message, inbound or the answer to an own send, leaves
\* the conversation with a last message created no earlier.
C38_LastActivityForward ==
    [][\A c \in conversations :
          (/\ SendResolve \/ \E m \in ServerMessages : NewMessage(m)
           /\ lastMessage[c] \in history.delivered)
          => /\ lastMessage'[c] # NoId
             /\ lastMessage'[c][2] >= lastMessage[c][2]]_vars

\* the runs of ChatScreen in which every kind of inbound event and the sends
\* meet the conversation list; requests stay in flight, so that the list of
\* the active conversation holds only what the handlers and the sends put there
InitFrame ==
    InitCommon /\ socket = LiveSocket /\ build = "screen"
               /\ run = [msgLimit |-> MaxMsgs, reqLimit |-> 0, recording |-> {}]

NextFrame ==
    \/ LoadConversationsResolve
    \/ LoadConversationsFail
    \/ \E c \in Convs : SelectChat(c)
    \/ Back
    \/ MessageNext
    \/ \E n \in 1..MaxStored : MessageRead(ServerId(n))
    \/ \E c \in Convs, userId \in Users : UserTyping(userId, c)
    \/ \E c \in Convs, userId \in Users : UserStoppedTyping(userId, c)
    \/ \E id \in typingTimeout.pending : TypingTimeoutFires(id)
    \/ \E userId \in Users, online \in BOOLEAN : UserStatusChanged(userId, online)

SpecFrame == InitFrame /\ [][NextFrame]_vars

\* C39: the conversation set is framed: the set of loaded conversations
\* changes only in the step in which a conversation-list fetch succeeds; no
\* new-message, message-read, typing or presence event and no send adds or
\* removes a conversation, and the updates that the new-message handler, the
\* send and the presence handler apply to the list return every conversation
\* with its id and its participant's id.
C39_ConversationsFramed ==
    /\ [][conversations' # conversations => LoadConversationsResolve]_vars
    /\ [](/\ \A m \in ServerMessages :
                MapConversations(conversations, ForMessage(m)) = ConversationOf(conversations)
          /\ \A userId \in Users :
                MapConversations(conversations, OfParticipant(userId))
                    = ConversationOf(conversations))

\* the list is loaded and complete after the new-message handler has put a
\* message of the counterpart into the list of the active conversation
C39_Witness ==
    /\ conversations = Convs
    /\ \E m \in ServerMessages :
          /\ m.senderId # Me
          /\ m.conversationId = selectedChat
          /\ m.id \in Ids(messages)

====
